---- MODULE Spec2Model ----
(***************************************************************************)
(* Model of the upload / processing orchestration client of SignApp:       *)
(* ApiService.processVideo (the workflow promise, its two timers and the   *)
(* upload race) and ApiService.connectToProcessing (the WebSocket channel  *)
(* session with its reconnection policy).                                  *)
(*                                                                         *)
(* JavaScript runs one task at a time, so every action below is one task   *)
(* of the event loop together with the microtasks it triggers: a timer     *)
(* callback, a WebSocket event handler, or the settlement of the upload    *)
(* request followed by the continuation of the awaiting executor.          *)
(* The caller's callbacks are those of App.processVideo (console.log and a *)
(* React state setter); they return normally.                              *)
(***************************************************************************)
EXTENDS Naturals, Integers, Sequences, FiniteSets, TLC

VARIABLES
    pc,                \* position of the executor of processVideo
    deadline,          \* timeoutId, the 180000 ms timer
    uploadTimer,       \* the 120000 ms timer of the upload race
    upload,            \* the uploadVideo request
    promise,           \* the promise returned by processVideo
    settleCalls,       \* number of resolve()/reject() calls made so far
    calls,             \* the caller's onProgress / onStatusUpdate calls, in order
    ws,                \* number of WebSocket objects created; 0 is ws = null
    readyState,        \* readyState of the WebSocket ws refers to
    isConnected,       \* connectToProcessing: isConnected
    reconnectAttempts, \* connectToProcessing: reconnectAttempts
    messageCount,      \* connectToProcessing: messageCount
    retryTimer,        \* delay of the pending setTimeout(connect, ..), 0 if none
    delays,            \* the retryDelays scheduled since the counter was last 0
    errorEvents,       \* number of transport error events delivered
    tornDown,          \* the cleanup function of connectToProcessing was invoked
    health,            \* the health request of the app and what it resolved to
    uploadResult,      \* the upload request and what uploadVideo settled with
    app,               \* the App component's state (useState values) and its run
    fx                 \* the statements the last task executed, in program order

vars == <<pc, deadline, uploadTimer, upload, promise, settleCalls, calls,
          ws, readyState, isConnected, reconnectAttempts, messageCount,
          retryTimer, delays, errorEvents, tornDown, health, uploadResult,
          app, fx>>

wfVars == <<pc, deadline, uploadTimer, upload, promise, settleCalls, calls>>

chanVars == <<ws, readyState, isConnected, reconnectAttempts, messageCount,
              retryTimer, delays, errorEvents>>

(***************************************************************************)
(* Bounds of the model.                                                    *)
(***************************************************************************)
MaxFrames == 2     \* message events delivered to one channel session
MaxErrors == 1     \* transport error events delivered to one session
MaxConns == 5      \* WebSocket objects created by one session

(***************************************************************************)
(* Program constants.                                                      *)
(***************************************************************************)
maxReconnectAttempts == 3
RetryBaseMs == 2000
UploadTimeoutMs == 120000
OverallTimeoutMs == 180000
NormalClosure == 1000

\* The codes a close event can carry: the normal one and an abnormal one.
CloseEventCodes == {NormalClosure, 1006}

OverallTimeoutError == "Overall processing timeout (3 minutes)"
UploadTimeoutError == "Upload timeout after 2 minutes"
UploadRejectedError == "Upload failed with status"
ServerTimeoutError == "Server processing timed out"
ServerProcessingError == "Server processing error"
MalformedFrameError == "Failed to parse server response"
ChannelError == "WebSocket connection error"
ChannelExhaustedError == "WebSocket connection failed after multiple attempts"
ChannelSetupError == "Failed to establish WebSocket connection"

\* config/config.ts: the limits of the development and of the production
\* configuration; CONFIG is one of them, chosen by the environment.
DEV_CONFIG ==
    [UPLOAD_TIMEOUT |-> 60000, PROCESSING_TIMEOUT |-> 180000,
     MAX_RETRY_ATTEMPTS |-> 3]

PROD_CONFIG ==
    [UPLOAD_TIMEOUT |-> 60000, PROCESSING_TIMEOUT |-> 180000,
     MAX_RETRY_ATTEMPTS |-> 5]

Configs == {DEV_CONFIG, PROD_CONFIG}

\* The error a callback of the caller throws.
CallbackError == "thrown by the caller's callback"

(***************************************************************************)
(* Data.                                                                   *)
(***************************************************************************)
NoResult == "none"

NoFrame == [status |-> "none", result |-> NoResult]

\* ProcessingStatus values a server can send, plus one whose status the
\* client does not know.
ProcessingStatus ==
    { [status |-> "processing", result |-> NoResult],
      [status |-> "done", result |-> "r1"],
      [status |-> "timeout", result |-> NoResult],
      [status |-> "error", result |-> "e1"],
      [status |-> "queued", result |-> NoResult] }

\* event.data of a message event: the JSON text of a ProcessingStatus, the
\* JSON text "null", or text that is not JSON.
RawData ==
    [kind : {"json"}, frame : ProcessingStatus]
        \cup { [kind |-> "null", frame |-> NoFrame],
               [kind |-> "garbage", frame |-> NoFrame] }

JSONParseLenient(raw) ==
    [throws |-> FALSE, isNull |-> raw.kind = "null", data |-> raw.frame]

\* JSON.parse: throws on text that is not JSON, yields null for "null".
JSONParse(raw) ==
    CASE raw.kind = "json" ->
           [throws |-> FALSE, isNull |-> FALSE, data |-> raw.frame]
      [] raw.kind = "null" ->
           [throws |-> FALSE, isNull |-> TRUE, data |-> NoFrame]
      [] OTHER ->
           [throws |-> TRUE, isNull |-> FALSE, data |-> NoFrame]

\* Values of Math.random() * 30, which lies in [0, 30).
RandomSamples == {0, 29}

Min(a, b) == IF a < b THEN a ELSE b

currentProgressUncapped(r) == 61 + r

currentProgress(r) == Min(90, 40 + r)

\* Texts (messages, status texts, bodies) are sequences of words, and
\* String.includes looks for a run of words.
Includes(text, pat) ==
    \E i \in 0..(Len(text) - Len(pat)) : SubSeq(text, i + 1, i + Len(pat)) = pat

\* What fetch settles with: a response (code, statusText, body, and what
\* response.json() yields, "" when the body is not JSON; readFails when
\* response.text() throws), or a failure whose message is in body.
Response(code, statusText, body, json) ==
    [kind |-> "response", code |-> code, statusText |-> statusText,
     body |-> body, json |-> json, readFails |-> FALSE]

Failure(message) ==
    [kind |-> "failure", code |-> 0, statusText |-> <<>>, body |-> message,
     json |-> "", readFails |-> FALSE]

NoFetch == Failure(<<>>)

\* response.ok
ResponseOk(f) == f.kind = "response" /\ f.code >= 200 /\ f.code <= 299

StatusLines ==
    { <<500, <<"Internal", "Server", "Error">>>>,
      <<504, <<"Gateway", "Timeout">>>> }

ErrorBodies ==
    { <<"disk", "full">>, <<"upstream", "timeout">>,
      <<"Network", "request", "failed">>, <<>> }

UploadFetches ==
    { Response(200, <<"OK">>, <<"{..}">>, "received"),
      Response(200, <<"OK">>, <<"{..}">>, "queued"),
      Response(200, <<"OK">>, <<"<html>">>, "") }
    \cup { Response(l[1], l[2], b, "") : l \in StatusLines, b \in ErrorBodies }
    \cup { Failure(<<"Network", "request", "failed">>),
           Failure(<<"request", "timeout">>),
           Failure(<<"aborted">>) }

JsonParseError == <<"JSON", "Parse", "error">>

\* The catch block of uploadVideo: the message it throws depends on the
\* message of the error it caught.
uploadCatch(thrown) ==
    IF Includes(thrown, <<"Network", "request", "failed">>)
    THEN [ok |-> FALSE, status |-> "", error |-> "Cannot connect to server",
          message |-> <<"Cannot", "connect", "to", "server.">>]
    ELSE IF Includes(thrown, <<"timeout">>)
    THEN [ok |-> FALSE, status |-> "", error |-> "Upload timed out",
          message |-> <<"Upload", "timed", "out.">>]
    ELSE [ok |-> FALSE, status |-> "", error |-> "Upload failed",
          message |-> <<"Upload", "failed:">> \o thrown]

\* uploadVideo, given what its fetch settles with: the UploadResponse
\* (ok, status) or the Error it throws (error names it, message is its text).
uploadVideo(f) ==
    IF f.kind = "failure" THEN uploadCatch(f.body)
    ELSE IF ~ResponseOk(f)
    THEN uploadCatch(<<"Upload", "failed:", ToString(f.code)>>
                     \o f.statusText \o <<"-">> \o f.body)
    ELSE IF f.json = "" THEN uploadCatch(JsonParseError)
    ELSE [ok |-> TRUE, status |-> f.json, error |-> "", message |-> <<>>]

\* Outcomes of uploadVideo: an UploadResponse, or a thrown Error.
UploadOutcomes == { uploadVideo(f) : f \in UploadFetches }

NoUpload ==
    [done |-> FALSE, fetch |-> NoFetch,
     out |-> [ok |-> FALSE, status |-> "", error |-> "", message |-> <<>>]]

HealthFetches ==
    { Response(200, <<"OK">>, <<"{..}">>, "ok"),
      Response(200, <<"OK">>, <<"<html>">>, ""),
      Response(204, <<"No", "Content">>, <<>>, ""),
      Response(503, <<"Service", "Unavailable">>, <<"down">>, ""),
      Response(503, <<>>, <<>>, ""),
      [Response(503, <<"Service", "Unavailable">>, <<>>, "")
         EXCEPT !.readFails = TRUE],
      Failure(<<"Network", "request", "failed">>),
      Failure(<<>>) }

healthCatchNoFallback(message) ==
    [threw |-> FALSE, isHealthy |-> FALSE, error |-> message]

\* The catch block of checkServerHealth: error.message || 'Connection failed'.
healthCatch(message) ==
    [threw |-> FALSE, isHealthy |-> FALSE,
     error |-> IF message = <<>> THEN <<"Connection", "failed">> ELSE message]

\* checkServerHealth, given what its fetch settles with.
checkServerHealth(f) ==
    IF f.kind = "failure" THEN healthCatch(f.body)
    ELSE IF ResponseOk(f)
    THEN IF f.json = "" THEN healthCatch(JsonParseError)
         ELSE [threw |-> FALSE, isHealthy |-> TRUE, error |-> <<>>]
    ELSE IF f.readFails THEN healthCatch(<<>>)
    ELSE [threw |-> FALSE, isHealthy |-> FALSE,
          error |-> <<"Server", "returned", ToString(f.code), ":">>
                    \o f.statusText]

NoHealth ==
    [done |-> FALSE, fetch |-> NoFetch,
     out |-> [threw |-> FALSE, isHealthy |-> FALSE, error |-> <<>>]]

(***************************************************************************)
(* Statements. A handler is the sequence of the statements it executes;    *)
(* op names the statement, n, s and v are its number, text or frame.       *)
(***************************************************************************)
E(op) == [op |-> op, n |-> 0, s |-> "", v |-> NoFrame]

EN(op, n) == [op |-> op, n |-> n, s |-> "", v |-> NoFrame]

ES(op, s) == [op |-> op, n |-> 0, s |-> s, v |-> NoFrame]

EV(op, v) == [op |-> op, n |-> 0, s |-> "", v |-> v]

ESV(op, s, v) == [op |-> op, n |-> 0, s |-> s, v |-> v]

HasOp(stmts, op) == \E i \in 1..Len(stmts) : stmts[i].op = op

IsCallerCallback(e) == e.op \in {"onProgress", "onStatusText"}

IsSettlement(e) == e.op \in {"resolve", "reject"}

(***************************************************************************)
(* Promise, timer and socket primitives.                                   *)
(***************************************************************************)
Pending == [state |-> "pending", value |-> NoFrame, reason |-> ""]

Fulfilled(v) == [state |-> "resolved", value |-> v, reason |-> ""]

Rejected(msg) == [state |-> "rejected", value |-> NoFrame, reason |-> msg]

SettleLast(p, new) == new

\* resolve / reject of a promise: only the first call settles it.
Settle(p, new) == IF p.state = "pending" THEN new ELSE p

RECURSIVE SettleAll(_, _)
SettleAll(p, ss) ==
    IF ss = <<>> THEN p
    ELSE SettleAll(Settle(p, IF Head(ss).op = "resolve"
                             THEN Fulfilled(Head(ss).v)
                             ELSE Rejected(Head(ss).s)),
                   Tail(ss))

\* clearTimeout: cancels a pending timer, no effect on one that fired.
ClearTimeout(t) == IF t = "armed" THEN "cleared" ELSE t

\* WebSocket.close(): starts the closing handshake of a live connection.
CloseCall(rs) == IF rs \in {"connecting", "open"} THEN "closing" ELSE rs

RaceNotChecked(p) == TRUE

\* Promise.race of the upload and its timeout: the executor continues on the
\* first settlement only, while it is still suspended at the await.
RacePending(p) == p = "race"

FiresBeforeReversed(d1, d2) == d2 < d1

\* Timers armed in the same task fire in the order of their delays.
FiresBefore(d1, d2) == d1 < d2

(***************************************************************************)
(* The callbacks of processVideo.                                          *)
(***************************************************************************)
\* The cases of the status callback handed to connectToProcessing.
onProcessing(r) ==
    <<EN("onProgress", currentProgress(r)),
      ES("onStatusText", "Processing landmarks and analyzing gestures...")>>

onDoneNoProgress(status) ==
    <<E("clearTimeout"), ES("onStatusText", "Analysis complete!"),
      EV("resolve", status)>>

onDone(status) ==
    <<E("clearTimeout"), EN("onProgress", 100),
      ES("onStatusText", "Analysis complete!"), EV("resolve", status)>>

onTimeoutTextFirst ==
    <<E("clearTimeout"), ES("onStatusText", "Processing timeout"),
      EN("onProgress", 100), ES("reject", ServerTimeoutError)>>

onTimeout ==
    <<E("clearTimeout"), EN("onProgress", 100),
      ES("onStatusText", "Processing timeout"),
      ES("reject", ServerTimeoutError)>>

onErrorStatus ==
    <<E("clearTimeout"), EN("onProgress", 100),
      ES("onStatusText", "Processing failed"),
      ES("reject", ServerProcessingError)>>

\* The status callback: switch (status.status).
onStatusUpdate(status, r) ==
    CASE status.status = "processing" -> onProcessing(r)
      [] status.status = "done" -> onDone(status)
      [] status.status = "timeout" -> onTimeout
      [] status.status = "error" -> onErrorStatus
      [] OTHER -> <<>>

onErrorNoClear(msg) == <<ES("onError", msg), ES("reject", msg)>>

onErrorNoReject(msg) == <<ES("onError", msg), E("clearTimeout")>>

\* The error callback handed to connectToProcessing.
onError(msg) == <<ES("onError", msg), E("clearTimeout"), ES("reject", msg)>>

\* The catch block of processVideo (wsCleanup is still null when it runs).
catchBlockNoClear(msg) == <<ES("catch", msg), ES("reject", msg)>>

catchBlock(msg) == <<ES("catch", msg), E("clearTimeout"), ES("reject", msg)>>

deadlineCallbackUploadError == <<ES("reject", UploadTimeoutError)>>

\* The callback of the overall deadline timer.
deadlineCallback == <<ES("reject", OverallTimeoutError)>>

(***************************************************************************)
(* The App component: the caller of checkServerHealth and processVideo.    *)
(***************************************************************************)
\* The state after onVideoSelected and the first lines of App.processVideo.
AppStart ==
    [slide |-> 2, uploadProgress |-> 0, isUploading |-> TRUE,
     result |-> "null", run |-> 1]

\* The catch of App.processVideo.
appCatch(a) ==
    [a EXCEPT !.isUploading = FALSE, !.uploadProgress = 0,
              !.result = "Connection Error", !.slide = 3]

\* App.processVideo after the await of apiService.processVideo.
appResolved(a, value) ==
    [a EXCEPT !.isUploading = FALSE,
              !.result = IF value.result # NoResult THEN "Result"
                         ELSE "Processing incomplete",
              !.slide = 3]

\* The progress callback App passes: setUploadProgress(progress).
appProgress(a, stmts) ==
    LET ps == SelectSeq(stmts, LAMBDA e : e.op = "onProgress")
    IN  IF ps = <<>> THEN a ELSE [a EXCEPT !.uploadProgress = ps[Len(ps)].n]

\* The App state after a task: the progress callbacks of the task, then the
\* continuation of App.processVideo if the task settled the promise.
AppAfter(a, stmts, p, q) ==
    IF p.state # "pending" THEN appProgress(a, stmts)
    ELSE IF q.state = "resolved" THEN appResolved(appProgress(a, stmts), q.value)
    ELSE IF q.state = "rejected" THEN appCatch(appProgress(a, stmts))
    ELSE appProgress(a, stmts)

\* The effect of a task's statements on the promise and on the caller.
Run(stmts) ==
    /\ calls' = calls \o SelectSeq(stmts, IsCallerCallback)
    /\ app' = AppAfter(app, stmts, promise,
                       SettleAll(promise, SelectSeq(stmts, IsSettlement)))
    /\ promise' = SettleAll(promise, SelectSeq(stmts, IsSettlement))
    /\ settleCalls' = settleCalls + Len(SelectSeq(stmts, IsSettlement))
    /\ fx' = stmts

\* ... and on timeoutId.
RunTimer(stmts) ==
    deadline' = IF HasOp(stmts, "clearTimeout") THEN ClearTimeout(deadline)
                ELSE deadline

Init ==
    /\ pc = "start"
    /\ deadline = "unset"
    /\ uploadTimer = "unset"
    /\ upload = "unsent"
    /\ promise = Pending
    /\ settleCalls = 0
    /\ calls = <<>>
    /\ ws = 0
    /\ readyState = "none"
    /\ isConnected = FALSE
    /\ reconnectAttempts = 0
    /\ messageCount = 0
    /\ retryTimer = 0
    /\ delays = <<>>
    /\ errorEvents = 0
    /\ tornDown = FALSE
    /\ health = NoHealth
    /\ uploadResult = NoUpload
    /\ app = AppStart
    /\ fx = <<>>

(***************************************************************************)
(* connectToProcessing.                                                    *)
(***************************************************************************)
\* connect(): ws = new WebSocket(wsUrl), or the catch when that throws.
connect(throws) ==
    IF throws THEN <<E("new WebSocket throws")>> \o onError(ChannelSetupError)
    ELSE <<E("new WebSocket")>>

\* ws and readyState after a task: connect() replaces the socket, ws.close
\* starts closing the current one.
RunSocket(stmts) ==
    /\ ws' = IF HasOp(stmts, "new WebSocket") THEN ws + 1 ELSE ws
    /\ readyState' = IF HasOp(stmts, "new WebSocket") THEN "connecting"
                     ELSE IF HasOp(stmts, "ws.close") THEN CloseCall(readyState)
                     ELSE readyState

\* ws.onopen
WsOpen ==
    /\ readyState = "connecting"
    /\ readyState' = "open"
    /\ isConnected' = TRUE
    /\ reconnectAttempts' = 0
    /\ delays' = <<>>
    /\ fx' = <<E("onopen")>>
    /\ UNCHANGED <<tornDown, health, uploadResult, app,
                   wfVars, ws, messageCount, retryTimer, errorEvents>>

IsTerminalDoneOnly(status) == status.status = "done"

IsTerminal(status) == status.status \in {"done", "timeout", "error"}

onmessageDropsUnknown(raw, r) ==
    LET parsed == JSONParse(raw)
        received == ESV("onmessage", raw.kind, raw.frame)
    IN  IF parsed.throws \/ parsed.isNull
        THEN <<received>> \o onError(MalformedFrameError)
        ELSE IF parsed.data.status = "queued" THEN <<received>>
        ELSE <<received, EV("onStatusUpdate", parsed.data)>>
             \o onStatusUpdate(parsed.data, r)
             \o (IF IsTerminal(parsed.data)
                 THEN <<EN("ws.close", NormalClosure)>> ELSE <<>>)

\* The body of ws.onmessage.
onmessage(raw, r) ==
    LET parsed == JSONParse(raw)
        received == ESV("onmessage", raw.kind, raw.frame)
    IN  IF parsed.throws
        THEN <<received>> \o onError(MalformedFrameError)
        ELSE IF parsed.isNull
        THEN <<received, EV("onStatusUpdate throws", parsed.data)>>
             \o onError(MalformedFrameError)
        ELSE <<received, EV("onStatusUpdate", parsed.data)>>
             \o onStatusUpdate(parsed.data, r)
             \o (IF IsTerminal(parsed.data)
                 THEN <<EN("ws.close", NormalClosure)>> ELSE <<>>)

\* A message event. The handler does not look at readyState, and the socket
\* can still deliver a message between close() and the close event.
WsMessage(raw, r) ==
    /\ readyState \in {"open", "closing"}
    /\ messageCount < MaxFrames
    /\ messageCount' = messageCount + 1
    /\ Run(onmessage(raw, r))
    /\ RunTimer(onmessage(raw, r))
    /\ RunSocket(onmessage(raw, r))
    /\ UNCHANGED <<tornDown, health, uploadResult,
                   pc, uploadTimer, upload, isConnected, reconnectAttempts,
                   retryTimer, delays, errorEvents>>

onerrorReconnects ==
    <<E("onerror"), EN("setTimeout", RetryBaseMs)>> \o onError(ChannelError)

onerrorCloses ==
    <<E("onerror"), EN("ws.close", NormalClosure)>> \o onError(ChannelError)

\* The body of ws.onerror.
onerror == <<E("onerror")>> \o onError(ChannelError)

\* The reconnect timer after a task: setTimeout(connect, ..) arms it.
RunRetry(stmts) ==
    LET timers == SelectSeq(stmts, LAMBDA e : e.op = "setTimeout")
    IN  retryTimer' = IF timers # <<>> THEN timers[1].n ELSE retryTimer

\* ws.onerror
WsError ==
    /\ readyState \in {"connecting", "open", "closing"}
    /\ errorEvents < MaxErrors
    /\ errorEvents' = errorEvents + 1
    /\ Run(onerror)
    /\ RunTimer(onerror)
    /\ RunSocket(onerror)
    /\ RunRetry(onerror)
    /\ UNCHANGED <<tornDown, health, uploadResult,
                   pc, uploadTimer, upload, isConnected,
                   reconnectAttempts, messageCount, delays>>

\* The close event that ends a connection: code 1000 answers the client's
\* own close(1000, ..); the server or the network ends a live connection
\* normally or abnormally.
CloseCodes(rs) == IF rs = "closing" THEN {NormalClosure} ELSE CloseEventCodes

ShouldReconnectAnyCode(code, attempts) == attempts < maxReconnectAttempts

ShouldReconnectInclusive(code, attempts) ==
    code # NormalClosure /\ attempts <= maxReconnectAttempts

ShouldReconnect(code, attempts) ==
    code # NormalClosure /\ attempts < maxReconnectAttempts

retryDelayNext(attempts) == RetryBaseMs * (attempts + 1)

retryDelay(attempts) == RetryBaseMs * attempts

oncloseAlwaysCounts(code, attempts) ==
    IF code # NormalClosure
    THEN <<EN("onclose", code), E("reconnectAttempts++"),
           EN("setTimeout", retryDelay(attempts + 1))>>
    ELSE <<EN("onclose", code)>>

\* The body of ws.onclose, given the counter before the event.
onclose(code, attempts) ==
    IF ShouldReconnect(code, attempts)
    THEN <<EN("onclose", code), E("reconnectAttempts++"),
           EN("setTimeout", retryDelay(attempts + 1))>>
    ELSE IF code # NormalClosure
    THEN <<EN("onclose", code)>> \o onError(ChannelExhaustedError)
    ELSE <<EN("onclose", code)>>

WsClose(code) ==
    /\ readyState \in {"connecting", "open", "closing"}
    /\ code \in CloseCodes(readyState)
    /\ readyState' = "closed"
    /\ isConnected' = FALSE
    /\ LET stmts == onclose(code, reconnectAttempts)
           timers == SelectSeq(stmts, LAMBDA e : e.op = "setTimeout")
       IN  /\ Run(stmts)
           /\ RunTimer(stmts)
           /\ reconnectAttempts' = IF HasOp(stmts, "reconnectAttempts++")
                                   THEN reconnectAttempts + 1
                                   ELSE reconnectAttempts
           /\ retryTimer' = IF timers # <<>> THEN timers[1].n ELSE retryTimer
           /\ delays' = delays \o [i \in 1..Len(timers) |-> timers[i].n]
    /\ UNCHANGED <<tornDown, health, uploadResult,
                   pc, uploadTimer, upload, ws, messageCount, errorEvents>>

\* The reconnect timer fires: connect() runs again.
ReconnectFires(throws) ==
    /\ retryTimer # 0
    /\ ws < MaxConns
    /\ retryTimer' = 0
    /\ Run(<<E("reconnect")>> \o connect(throws))
    /\ RunTimer(connect(throws))
    /\ RunSocket(connect(throws))
    /\ UNCHANGED <<tornDown, health, uploadResult,
                   pc, uploadTimer, upload, isConnected, reconnectAttempts,
                   messageCount, delays, errorEvents>>

(***************************************************************************)
(* processVideo.                                                           *)
(***************************************************************************)
\* App.processVideo awaits checkServerHealth before anything else.
AppCheckHealth(f) ==
    /\ pc = "start"
    /\ ~health.done
    /\ health' = [done |-> TRUE, fetch |-> f, out |-> checkServerHealth(f)]
    /\ app' = IF checkServerHealth(f).isHealthy THEN app ELSE appCatch(app)
    /\ fx' = <<E("checkServerHealth")>>
    /\ UNCHANGED <<wfVars, chanVars, tornDown, uploadResult>>

HealthGateAnyResult == health.done

\* App.processVideo goes on to apiService.processVideo when the server is
\* healthy, and throws otherwise.
HealthGate == health.done /\ health.out.isHealthy

\* The call: the executor runs up to the await of the upload race.
ProcessVideo ==
    /\ pc = "start"
    /\ HealthGate
    /\ pc' = "race"
    /\ deadline' = "armed"
    /\ upload' = "inflight"
    /\ uploadTimer' = "armed"
    /\ Run(<<EN("setTimeout", OverallTimeoutMs),
             ES("onStatusText", "Uploading video..."), EN("onProgress", 10),
             E("uploadVideo"), EN("setTimeout", UploadTimeoutMs)>>)
    /\ UNCHANGED <<tornDown, health, uploadResult, chanVars>>

afterUploadConnectsFirst(res, throws) ==
    IF res.ok /\ res.status = "received"
    THEN <<E("connectToProcessing")>> \o connect(throws)
         \o <<EN("onProgress", 30),
              ES("onStatusText", "Video uploaded, starting analysis...")>>
    ELSE catchBlock(IF res.ok THEN UploadRejectedError ELSE res.error)

afterUploadNoCheck(res, throws) ==
    IF res.ok
    THEN <<EN("onProgress", 30),
           ES("onStatusText", "Video uploaded, starting analysis..."),
           E("connectToProcessing")>> \o connect(throws)
    ELSE catchBlock(res.error)

\* The executor after the race settled with the upload's outcome: the status
\* check, the two milestone callbacks and connectToProcessing, or the catch.
afterUpload(res, throws) ==
    IF res.ok /\ res.status = "received"
    THEN <<EN("onProgress", 30),
           ES("onStatusText", "Video uploaded, starting analysis..."),
           E("connectToProcessing")>> \o connect(throws)
    ELSE catchBlock(IF res.ok THEN UploadRejectedError ELSE res.error)

\* uploadVideo settles; the executor continues if the race is still pending.
UploadSettles(f, throws) ==
    /\ upload = "inflight"
    /\ upload' = "settled"
    /\ LET res == uploadVideo(f)
           stmts == <<ES("upload settles", res.status)>>
                    \o (IF RacePending(pc) THEN afterUpload(res, throws)
                        ELSE <<>>)
       IN  /\ uploadResult' = [done |-> TRUE, fetch |-> f, out |-> res]
           /\ pc' = IF ~RacePending(pc) THEN pc
                    ELSE IF HasOp(stmts, "connectToProcessing") THEN "channel"
                    ELSE "caught"
           /\ Run(stmts)
           /\ RunTimer(stmts)
           /\ RunSocket(stmts)
    /\ UNCHANGED <<tornDown, health,
                   uploadTimer, isConnected, reconnectAttempts, messageCount,
                   retryTimer, delays, errorEvents>>

\* The 120000 ms timer of the race fires.
UploadTimeoutFires ==
    /\ uploadTimer = "armed"
    /\ uploadTimer' = "fired"
    /\ LET stmts == <<E("upload timeout")>>
                    \o (IF RacePending(pc) THEN catchBlock(UploadTimeoutError)
                        ELSE <<>>)
       IN  /\ pc' = IF RacePending(pc) THEN "caught" ELSE pc
           /\ Run(stmts)
           /\ RunTimer(stmts)
    /\ UNCHANGED <<tornDown, health, uploadResult,
                   upload, chanVars>>

\* The 180000 ms timer fires. It was armed in the same task as the upload
\* timer, so it fires after it.
DeadlineFires ==
    /\ deadline = "armed"
    /\ FiresBefore(UploadTimeoutMs, OverallTimeoutMs) => uploadTimer # "armed"
    /\ deadline' = "fired"
    /\ Run(<<E("deadline")>> \o deadlineCallback)
    /\ UNCHANGED <<tornDown, health, uploadResult,
                   pc, uploadTimer, upload, chanVars>>

Next ==
    \/ \E f \in HealthFetches : AppCheckHealth(f)
    \/ ProcessVideo
    \/ \E f \in UploadFetches, throws \in BOOLEAN : UploadSettles(f, throws)
    \/ UploadTimeoutFires
    \/ DeadlineFires
    \/ WsOpen
    \/ \E raw \in RawData, r \in RandomSamples : WsMessage(raw, r)
    \/ WsError
    \/ \E code \in CloseEventCodes : WsClose(code)
    \/ \E throws \in BOOLEAN : ReconnectFires(throws)

Spec == Init /\ [][Next]_vars

cleanupNotifies ==
    <<E("cleanup"), EN("ws.close", NormalClosure)>> \o onError(ChannelError)

cleanupIgnoresFlag ==
    IF ws # 0
    THEN <<E("cleanup"), EN("ws.close", NormalClosure)>>
    ELSE <<E("cleanup")>>

\* The function connectToProcessing returns: closes the socket when there is
\* one and it is connected.
cleanup ==
    IF ws # 0 /\ isConnected
    THEN <<E("cleanup"), EN("ws.close", NormalClosure)>>
    ELSE <<E("cleanup")>>

\* A caller of connectToProcessing invokes the function it returned.
Teardown ==
    /\ pc = "channel"
    /\ tornDown' = TRUE
    /\ Run(cleanup)
    /\ RunSocket(cleanup)
    /\ UNCHANGED <<pc, deadline, uploadTimer, upload, isConnected,
                   reconnectAttempts, messageCount, retryTimer, delays,
                   errorEvents, health, uploadResult>>

NextTeardown == Next \/ Teardown

\* The channel with a caller that may tear it down at any moment.
TeardownSpec == Init /\ [][NextTeardown]_vars

\* The caller's callbacks of processVideo.
CallbackNames == {"onStatusText", "onProgress"}

\* The executor up to the upload when the named callback throws: the catch.
beforeUploadThrows(at) ==
    <<EN("setTimeout", OverallTimeoutMs), ES("onStatusText", "Uploading video...")>>
    \o (IF at = "onProgress" THEN <<EN("onProgress", 10)>> ELSE <<>>)
    \o catchBlock(CallbackError)

\* The executor after a received upload when the named callback throws.
afterUploadThrows(at) ==
    <<EN("onProgress", 30)>>
    \o (IF at = "onStatusText"
        THEN <<ES("onStatusText", "Video uploaded, starting analysis...")>>
        ELSE <<>>)
    \o catchBlock(CallbackError)

\* The call, with a callback that throws before the upload is started.
ProcessVideoThrows(at) ==
    /\ pc = "start"
    /\ HealthGate
    /\ pc' = "caught"
    /\ deadline' = IF HasOp(beforeUploadThrows(at), "clearTimeout")
                   THEN ClearTimeout("armed") ELSE "armed"
    /\ Run(beforeUploadThrows(at))
    /\ UNCHANGED <<uploadTimer, upload, tornDown, health, uploadResult,
                   chanVars>>

\* uploadVideo returns status 'received' and a milestone callback throws.
UploadSettlesThrows(f, at) ==
    /\ upload = "inflight"
    /\ RacePending(pc)
    /\ uploadVideo(f).ok
    /\ uploadVideo(f).status = "received"
    /\ upload' = "settled"
    /\ uploadResult' = [done |-> TRUE, fetch |-> f, out |-> uploadVideo(f)]
    /\ pc' = "caught"
    /\ LET stmts == <<ES("upload settles", uploadVideo(f).status)>>
                    \o afterUploadThrows(at)
       IN  Run(stmts) /\ RunTimer(stmts)
    /\ UNCHANGED <<uploadTimer, tornDown, health, chanVars>>

NextCallback ==
    \/ Next
    \/ \E at \in CallbackNames : ProcessVideoThrows(at)
    \/ \E f \in UploadFetches, at \in CallbackNames : UploadSettlesThrows(f, at)

\* processVideo with a caller whose callbacks may throw before the channel
\* is set up.
CallbackSpec == Init /\ [][NextCallback]_vars

\* Timers that are armed fire.
FairSpec == Spec /\ WF_vars(UploadTimeoutFires) /\ WF_vars(DeadlineFires)

(***************************************************************************)
(* The user of the App: the buttons of the slides. Paging by swipe is      *)
(* disabled, so the slide changes by goToSlide only.                       *)
(***************************************************************************)
\* The four setters resetToHome and tryAnotherVideo share, then goToSlide.
appReset(a, index) ==
    [a EXCEPT !.uploadProgress = 0, !.isUploading = FALSE, !.result = "null",
              !.slide = index]

\* onVideoSelected: goToSlide(2) and App.processVideo up to its first await.
appSelect(a) ==
    [a EXCEPT !.slide = 2, !.isUploading = TRUE, !.uploadProgress = 0,
              !.result = "null", !.run = a.run + 1]

\* A press of a button: only the App state changes.
UserPress(name, a) ==
    /\ app' = a
    /\ fx' = <<ES("press", name)>>
    /\ UNCHANGED <<wfVars, chanVars, tornDown, health, uploadResult>>

\* ResultSlide onBackToHome
ResetToHome == app.slide = 3 /\ UserPress("resetToHome", appReset(app, 0))

\* ResultSlide onTryAnother
TryAnotherVideo ==
    app.slide = 3 /\ UserPress("tryAnotherVideo", appReset(app, 1))

\* WelcomeSlide onNext
WelcomeNext ==
    app.slide = 0 /\ UserPress("onNext", [app EXCEPT !.slide = 1])

\* VideoInputSlide onBack
VideoInputBack ==
    app.slide = 1 /\ UserPress("onBack", [app EXCEPT !.slide = 0])

\* VideoInputSlide onVideoSelected: the next run starts. The tasks of that
\* run after its first await are not part of the model: every task of Next
\* belongs to the first run.
OnVideoSelected ==
    app.slide = 1 /\ UserPress("onVideoSelected", appSelect(app))

NextApp ==
    \/ Next
    \/ ResetToHome
    \/ TryAnotherVideo
    \/ WelcomeNext
    \/ VideoInputBack
    \/ OnVideoSelected

\* The workflow of the first video with a user who goes on using the App.
AppSpec == Init /\ [][NextApp]_vars

(***************************************************************************)
(* Properties of the workflow.                                             *)
(***************************************************************************)
Settled == promise.state # "pending"

\* C1: the workflow is settled at most once: once the promise is resolved or
\* rejected, no later resolve or reject call, from any frame, error, close
\* or timer, changes its state, its value or its reason.
C1_SettledOnce == [][Settled => promise' = promise]_vars

\* A resolved workflow on which a later reject call was made.
C1_Witness ==
    /\ promise.state = "resolved"
    /\ settleCalls >= 2
    /\ HasOp(fx, "reject")

\* C2: while an invoked workflow is unsettled, the upload race or the
\* overall deadline timer is still pending, and with timers that fire every
\* invoked workflow is eventually settled.
C2_EventuallySettles ==
    /\ [](pc # "start" /\ ~Settled =>
            \/ pc = "race" /\ uploadTimer = "armed"
            \/ deadline = "armed")
    /\ (pc # "start") ~> Settled

\* The deadline settled a workflow whose open channel had only delivered
\* frames that settle nothing.
C2_Witness ==
    /\ promise.reason = OverallTimeoutError
    /\ readyState = "open"
    /\ messageCount > 0

ProcessingText == "Processing landmarks and analyzing gestures..."

\* C3: when the overall deadline fires while the channel is open and has
\* delivered 'processing' frames only, the workflow is rejected with the
\* overall-timeout error and the channel is closed with code 1000, and once
\* the deadline has fired no caller callback is invoked any more.
C3_DeadlineTearsDown ==
    [][/\ ( /\ deadline = "armed" /\ deadline' = "fired"
            /\ readyState = "open"
            /\ calls[Len(calls)].s = ProcessingText )
          => ( /\ promise'.reason = OverallTimeoutError
               /\ readyState' = "closing"
               /\ HasOp(fx', "ws.close") )
       /\ ( /\ deadline = "fired"
            /\ calls[Len(calls)].s = ProcessingText )
          => calls' = calls]_vars

\* C4: once the workflow has settled, on whatever path, its channel (if one
\* was opened) is closed or closing and no reconnect is pending.
C4_SettledChannelClosed ==
    Settled => readyState \in {"none", "closing", "closed"} /\ retryTimer = 0

\* C5: a settled workflow has no pending deadline timer: the timer has
\* fired or has been cleared by the task that settled the workflow.
C5_SettledTimerNotPending == Settled => deadline \in {"fired", "cleared"}

\* The channel's error callback settled the workflow and cleared the timer.
C5_Witness ==
    /\ promise.reason = ChannelError
    /\ deadline = "cleared"
    /\ HasOp(fx, "clearTimeout")

(***************************************************************************)
(* Properties of the channel.                                              *)
(***************************************************************************)
Live == readyState \in {"connecting", "open", "closing"}

\* The step is a close event with a code other than 1000.
AbnormalCloseStep ==
    /\ Live /\ readyState' = "closed"
    /\ fx'[1].op = "onclose" /\ fx'[1].n # 1000

Position(stmts, op) == CHOOSE i \in 1..Len(stmts) : stmts[i].op = op

C7_LinearBackoff ==
    /\ [](delays = [i \in 1..reconnectAttempts |-> 2000 * i])
    /\ [][(AbnormalCloseStep /\ reconnectAttempts < 3)
          => ( /\ reconnectAttempts' = reconnectAttempts + 1
               /\ Len(SelectSeq(fx', LAMBDA e : e.op = "setTimeout")) = 1
               /\ fx'[Position(fx', "setTimeout")].n
                    = 2000 * (reconnectAttempts + 1)
               /\ retryTimer' = 2000 * (reconnectAttempts + 1)
               /\ ~HasOp(fx', "onError") )]_vars

\* Three reconnects were scheduled without an open in between.
C7_Witness == delays = <<2000, 4000, 6000>> /\ retryTimer = 6000

\* C8: an abnormal close with the counter at 3 schedules no reconnect and
\* hands the channel-exhausted error to the error callback; a session whose
\* connection is closed with no reconnect pending never changes again, so no
\* further connection is created and no second exhausted error is raised.
C8_ExhaustedStops ==
    /\ [][(AbnormalCloseStep /\ reconnectAttempts = 3)
          => ( /\ ~HasOp(fx', "setTimeout")
               /\ HasOp(fx', "onError")
               /\ fx'[Position(fx', "onError")].s = ChannelExhaustedError
               /\ retryTimer' = 0
               /\ reconnectAttempts' = 3 )]_vars
    /\ [][(readyState = "closed" /\ retryTimer = 0)
          => UNCHANGED chanVars]_vars

\* The fourth connection closed abnormally and exhausted the session.
C8_Witness ==
    /\ HasOp(fx, "onError")
    /\ fx[Position(fx, "onError")].s = ChannelExhaustedError
    /\ readyState = "closed"
    /\ reconnectAttempts = 3

(***************************************************************************)
(* Properties of the workflow's callbacks and of the upload race.          *)
(***************************************************************************)
ProgressValues(cs) == SelectSeq(cs, LAMBDA e : e.op = "onProgress")

\* C9: the task that resolves the workflow has invoked onProgress(100)
\* before calling resolve; at that moment 100 is the last progress value
\* reported and every earlier one is smaller; the value resolved with is the
\* 'done' frame that was received, result included.
C9_ResolvesAfterFullProgress ==
    [][(~Settled /\ promise'.state = "resolved")
       => LET ps == ProgressValues(calls')
          IN  /\ HasOp(fx', "onProgress") /\ HasOp(fx', "resolve")
              /\ fx'[Position(fx', "onProgress")].n = 100
              /\ Position(fx', "onProgress") < Position(fx', "resolve")
              /\ ps # <<>>
              /\ ps[Len(ps)].n = 100
              /\ \A i \in 1..(Len(ps) - 1) : ps[i].n < 100
              /\ fx'[1].op = "onmessage"
              /\ promise'.value = fx'[1].v
              /\ promise'.value.status = "done"
              /\ promise'.value.result = "r1"]_vars

\* A run resolved after a 'processing' frame and a 'done' frame.
C9_Witness ==
    /\ promise.state = "resolved"
    /\ Len(ProgressValues(calls)) = 4
    /\ HasOp(fx, "resolve")

\* C10: only the first settlement of the upload race counts. The upload
\* timeout firing first rejects the workflow, and the upload settling after
\* that changes nothing: no channel, no callback, no settlement. The upload
\* timeout firing after the upload settled changes nothing either.
C10_RaceFirstSettlementWins ==
    [][/\ ( uploadTimer = "armed" /\ uploadTimer' = "fired"
            /\ upload = "inflight" )
          => promise' = Rejected(UploadTimeoutError)
       /\ ( upload = "inflight" /\ upload' = "settled"
            /\ uploadTimer = "fired" )
          => ( /\ promise' = promise /\ promise.state = "rejected"
               /\ calls' = calls /\ ws' = 0 /\ readyState' = "none"
               /\ pc' = pc /\ deadline' = deadline
               /\ UNCHANGED chanVars )
       /\ ( uploadTimer = "armed" /\ uploadTimer' = "fired"
            /\ upload = "settled" )
          => ( /\ promise' = promise /\ calls' = calls
               /\ pc' = pc /\ deadline' = deadline
               /\ UNCHANGED chanVars )]_vars

\* The upload succeeded after the upload timeout had rejected the workflow.
C10_Witness ==
    /\ fx = <<ES("upload settles", "received")>>
    /\ uploadTimer = "fired"
    /\ promise = Rejected(UploadTimeoutError)
    /\ ws = 0

\* C11: an upload that completes with a status other than 'received' makes
\* the workflow reject with the upload-rejected error and clears the
\* deadline timer; such a run never reports progress 30 and never opens a
\* channel, and the first connection is only ever created by the task that
\* continues after an upload result with status 'received'.
C11_RejectedUploadOpensNothing ==
    /\ [][( /\ pc = "race" /\ upload = "inflight" /\ upload' = "settled"
            /\ fx'[1].s \notin {"received", ""} )
          => ( /\ promise' = Rejected(UploadRejectedError)
               /\ deadline' = "cleared"
               /\ pc' = "caught"
               /\ ~HasOp(fx', "onProgress")
               /\ ~HasOp(fx', "new WebSocket") )]_vars
    /\ [](promise.reason = UploadRejectedError
            => /\ ws = 0 /\ readyState = "none"
               /\ \A i \in 1..Len(calls) : calls[i].n # 30)
    /\ [][(ws = 0 /\ ws' # 0)
          => ( /\ fx'[1] = ES("upload settles", "received")
               /\ pc = "race" )]_vars

\* The upload answered with another status and the workflow was rejected.
C11_Witness ==
    /\ HasOp(fx, "upload settles")
    /\ fx[1] = ES("upload settles", "queued")
    /\ promise = Rejected(UploadRejectedError)
    /\ deadline = "cleared"

(***************************************************************************)
(* C12. Once the teardown function returned by connectToProcessing has     *)
(* been invoked while a reconnect timer is scheduled (the socket closed    *)
(* abnormally), no new connection is created for the session.              *)
(***************************************************************************)
C12_TeardownSuppressesReconnect ==
    [][(tornDown /\ fx = <<E("cleanup")>> /\ retryTimer # 0) => ws' = ws]_vars

(***************************************************************************)
(* C13. On every failure path of processVideo, the task that rejects the   *)
(* workflow has invoked onStatusText with a status text before its reject. *)
(***************************************************************************)
C13_FailureReportsStatusText ==
    [][(~Settled /\ promise'.state = "rejected")
       => \E i \in 1..Len(fx') :
             /\ fx'[i].op = "onStatusText"
             /\ i < Position(fx', "reject")]_vars

\* A close event is delivered to ws.onclose.
CloseStep == readyState # "closed" /\ readyState' = "closed"

(***************************************************************************)
(* C14. A close event with code 1000, after the channel's own close or the *)
(* caller's teardown, runs nothing but the handler's bookkeeping: no       *)
(* reconnect timer, no error callback, the counter and the workflow        *)
(* untouched, whatever the counter is.  A close event with any other code  *)
(* enters the reconnection logic: it schedules a reconnect after counting  *)
(* the attempt, or reports that the attempts are exhausted.                *)
(***************************************************************************)
C14_NormalCloseNeverReconnects ==
    [][CloseStep
       => IF fx'[1] = EN("onclose", NormalClosure)
          THEN /\ fx' = <<EN("onclose", NormalClosure)>>
               /\ ~HasOp(fx', "setTimeout") /\ ~HasOp(fx', "onError")
               /\ retryTimer' = retryTimer
               /\ reconnectAttempts' = reconnectAttempts
               /\ promise' = promise
          ELSE \/ /\ reconnectAttempts < maxReconnectAttempts
                  /\ HasOp(fx', "setTimeout")
                  /\ retryTimer' # 0
                  /\ reconnectAttempts' = reconnectAttempts + 1
               \/ /\ reconnectAttempts >= maxReconnectAttempts
                  /\ \E i \in 1..Len(fx') :
                        fx'[i] = ES("onError", ChannelExhaustedError)
                  /\ retryTimer' = retryTimer]_vars

C14_Witness ==
    /\ tornDown
    /\ fx = <<EN("onclose", NormalClosure)>>
    /\ readyState = "closed"
    /\ reconnectAttempts > 0
    /\ retryTimer = 0

\* A message event whose data is of the given kind is delivered.
FrameStep(kind) ==
    /\ messageCount' = messageCount + 1
    /\ fx'[1].op = "onmessage"
    /\ fx'[1].s = kind

(***************************************************************************)
(* C15. A frame that is not JSON makes the channel call the error callback *)
(* with the malformed-frame error and nothing else: the status callback is *)
(* not called for it, the connection is not closed or replaced, and the    *)
(* reconnect counter keeps its value.  A JSON frame that arrives on the    *)
(* same connection after it is still handed to the status callback.        *)
(***************************************************************************)
C15_MalformedFrameKeepsChannel ==
    /\ [][FrameStep("garbage")
          => /\ \E i \in 1..Len(fx') :
                   fx'[i] = ES("onError", MalformedFrameError)
             /\ ~HasOp(fx', "onStatusUpdate")
             /\ ~HasOp(fx', "ws.close")
             /\ readyState' = readyState
             /\ ws' = ws
             /\ isConnected' = isConnected
             /\ reconnectAttempts' = reconnectAttempts]_vars
    /\ [][( /\ HasOp(fx, "onmessage") /\ fx[1].s = "garbage"
            /\ FrameStep("json") )
          => /\ fx'[2] = EV("onStatusUpdate", fx'[1].v)
             /\ ws' = ws]_vars

C15_Witness ==
    /\ HasOp(fx, "onmessage")
    /\ fx[1].s = "garbage"
    /\ promise = Rejected(MalformedFrameError)
    /\ readyState = "open"
    /\ messageCount < MaxFrames

\* A frame of the given status is delivered while the workflow is pending.
FirstSettlingFrame(status) ==
    /\ ~Settled
    /\ FrameStep("json")
    /\ fx'[1].v.status = status

(***************************************************************************)
(* C16. An 'error' frame that arrives while the workflow is pending        *)
(* cancels the deadline timer, reports progress 100 and the status text    *)
(* 'Processing failed', and rejects the workflow with the server           *)
(* processing error, the rejection carrying the result of that frame.      *)
(***************************************************************************)
C16_ErrorFrameCarriesDetail ==
    [][FirstSettlingFrame("error")
       => /\ deadline' = "cleared"
          /\ calls' = calls \o <<EN("onProgress", 100),
                                 ES("onStatusText", "Processing failed")>>
          /\ promise'.state = "rejected"
          /\ promise'.reason = ServerProcessingError
          /\ promise'.value.result = fx'[1].v.result]_vars

(***************************************************************************)
(* C17. A 'timeout' frame that arrives while the workflow is pending       *)
(* cancels the deadline timer, then reports progress 100, then the status  *)
(* text 'Processing timeout', and then rejects the workflow with the       *)
(* server-timeout error; the workflow stays rejected with it.              *)
(***************************************************************************)
C17_TimeoutFrameRejects ==
    /\ [][FirstSettlingFrame("timeout")
          => /\ Position(fx', "clearTimeout") < Position(fx', "onProgress")
             /\ Position(fx', "onProgress") < Position(fx', "onStatusText")
             /\ Position(fx', "onStatusText") < Position(fx', "reject")
             /\ ~HasOp(fx', "resolve")
             /\ deadline' = "cleared"
             /\ calls' = calls \o <<EN("onProgress", 100),
                                    ES("onStatusText", "Processing timeout")>>
             /\ promise' = Rejected(ServerTimeoutError)]_vars
    /\ [][promise = Rejected(ServerTimeoutError) => promise' = promise]_vars

C17_Witness ==
    /\ HasOp(fx, "onmessage")
    /\ fx[1].v.status = "timeout"
    /\ promise = Rejected(ServerTimeoutError)
    /\ deadline = "cleared"
    /\ calls[Len(calls)] = ES("onStatusText", "Processing timeout")

(***************************************************************************)
(* C18. When the upload request is answered with a status outside 200..299 *)
(* uploadVideo throws an error whose message contains the status code, the *)
(* status text and the body text, whatever they are.                       *)
(***************************************************************************)
C18_HttpErrorMessageEmbedsResponse ==
    ( /\ uploadResult.done
      /\ uploadResult.fetch.kind = "response"
      /\ ~ResponseOk(uploadResult.fetch) )
    => /\ ~uploadResult.out.ok
       /\ Includes(uploadResult.out.message,
                   <<ToString(uploadResult.fetch.code)>>)
       /\ Includes(uploadResult.out.message, uploadResult.fetch.statusText)
       /\ Includes(uploadResult.out.message, uploadResult.fetch.body)

(***************************************************************************)
(* C19. checkServerHealth never throws: whatever the health request        *)
(* settles with, it resolves to a value; when the request fails or is      *)
(* answered with a status outside 200..299 the value has isHealthy false   *)
(* and an error message that is not empty.                                 *)
(***************************************************************************)
C19_HealthNeverThrows ==
    health.done
    => /\ ~health.out.threw
       /\ (health.fetch.kind = "failure" \/ ~ResponseOk(health.fetch))
          => /\ ~health.out.isHealthy
             /\ health.out.error # <<>>

C19_Witness ==
    /\ health.done
    /\ health.fetch = Failure(<<>>)
    /\ ~health.out.isHealthy
    /\ health.out.error = <<"Connection", "failed">>

(***************************************************************************)
(* C20. checkServerHealth reports isHealthy true exactly when the health   *)
(* request is answered with a status in 200..299, whatever the body is,    *)
(* an empty body or one that is not JSON included.                         *)
(***************************************************************************)
C20_HealthyIffStatusOk ==
    health.done => (health.out.isHealthy <=> ResponseOk(health.fetch))

\* A socket event (open, message, error, close) is delivered.
SocketEventStep ==
    /\ fx' # <<>>
    /\ fx'[1].op \in {"onopen", "onmessage", "onerror", "onclose"}
    /\ fx' # fx \/ messageCount' # messageCount \/ errorEvents' # errorEvents
       \/ readyState' # readyState

(***************************************************************************)
(* C21. A channel session has at most one connection that is connecting or *)
(* open: a new WebSocket is created only when there is none yet or the     *)
(* previous one has delivered its close event, and a connection that has   *)
(* delivered its close event delivers no further event.                    *)
(***************************************************************************)
C21_OneLiveConnection ==
    /\ [][ws' # ws
          => /\ ws' = ws + 1
             /\ readyState \in {"none", "closed"}
             /\ readyState' = "connecting"]_vars
    /\ [][readyState = "closed" /\ ws' = ws => ~SocketEventStep]_vars

C21_Witness ==
    /\ ws = 2
    /\ readyState = "open"
    /\ HasOp(fx, "onopen")

(***************************************************************************)
(* C22. Every JSON status frame a connection receives is handed to the     *)
(* status callback in the task that receives it, once and unchanged, and   *)
(* the status callback is called by nothing else; so the frames the        *)
(* callback sees are the parseable frames received, in the same order.     *)
(***************************************************************************)
C22_FramesDeliveredInOrder ==
    /\ [][FrameStep("json")
          => /\ Len(fx') >= 2
             /\ fx'[2] = EV("onStatusUpdate", fx'[1].v)
             /\ Len(SelectSeq(fx', LAMBDA e : e.op = "onStatusUpdate")) = 1]_vars
    /\ [][(HasOp(fx', "onStatusUpdate") /\ messageCount' = messageCount)
          => fx' = fx]_vars

C22_Witness ==
    /\ ws = 1
    /\ messageCount = 2
    /\ HasOp(fx, "onStatusUpdate")
    /\ fx[2].v.status = "queued"
    /\ calls[Len(calls)].s = ProcessingText
    /\ readyState = "open"

\* An open event is delivered to ws.onopen.
OpenStep == readyState = "connecting" /\ readyState' = "open"

(***************************************************************************)
(* C24. Every open of a connection sets the connected flag and resets the  *)
(* reconnect counter to 0; the counter changes otherwise only by one, on a *)
(* close event with a code other than 1000 while it is below the bound;    *)
(* and it is between 0 and 3 in every reachable state.                     *)
(***************************************************************************)
C24_CounterWithinBound ==
    /\ [](reconnectAttempts \in 0..maxReconnectAttempts)
    /\ [][OpenStep => isConnected' /\ reconnectAttempts' = 0]_vars
    /\ [][reconnectAttempts' # reconnectAttempts
          => \/ OpenStep
             \/ /\ CloseStep
                /\ fx'[1].n # NormalClosure
                /\ reconnectAttempts < maxReconnectAttempts
                /\ reconnectAttempts' = reconnectAttempts + 1]_vars

C24_Witness ==
    /\ HasOp(fx, "onopen")
    /\ ws = 3
    /\ isConnected
    /\ reconnectAttempts = 0

\* A transport error event is delivered to ws.onerror.
ErrorStep == errorEvents' = errorEvents + 1

(***************************************************************************)
(* C25. A transport error event calls the error callback with the channel  *)
(* error in the same task and changes nothing else of the channel session: *)
(* the socket and its readyState, the connected flag and the reconnect     *)
(* counter keep their values and no reconnect is scheduled by it.          *)
(***************************************************************************)
C25_ErrorEventOnlyReports ==
    [][ErrorStep
       => /\ \E i \in 1..Len(fx') : fx'[i] = ES("onError", ChannelError)
          /\ ~HasOp(fx', "setTimeout")
          /\ ~HasOp(fx', "ws.close")
          /\ ~HasOp(fx', "new WebSocket")
          /\ ws' = ws
          /\ readyState' = readyState
          /\ isConnected' = isConnected
          /\ reconnectAttempts' = reconnectAttempts
          /\ retryTimer' = retryTimer
          /\ messageCount' = messageCount]_vars

C25_Witness ==
    /\ HasOp(fx, "onerror")
    /\ readyState = "open"
    /\ isConnected
    /\ promise = Rejected(ChannelError)
    /\ retryTimer = 0

(***************************************************************************)
(* C26. A 'processing' frame is not terminal: the channel does not close   *)
(* its connection, the workflow keeps the state it had and an unsettled    *)
(* workflow keeps its deadline timer pending; the frame reports one        *)
(* progress value, which is at least 40 and below 90, hence above the      *)
(* upload milestone 30 and below the final value 100.                      *)
(***************************************************************************)
C26_ProcessingFrameNonTerminal ==
    [][(FrameStep("json") /\ fx'[1].v.status = "processing")
       => /\ ~HasOp(fx', "ws.close")
          /\ readyState' = readyState
          /\ ws' = ws
          /\ promise' = promise
          /\ deadline' = deadline
          /\ ~Settled => deadline' = "armed"
          /\ Len(calls') = Len(calls) + 2
          /\ calls'[Len(calls) + 1].op = "onProgress"
          /\ calls'[Len(calls) + 1].n >= 40
          /\ calls'[Len(calls) + 1].n < 90
          /\ calls'[Len(calls) + 2] = ES("onStatusText", ProcessingText)]_vars

C26_Witness ==
    /\ HasOp(fx, "onmessage")
    /\ fx[1].v.status = "processing"
    /\ readyState = "open"
    /\ ~Settled
    /\ deadline = "armed"
    /\ calls[Len(calls) - 1] = EN("onProgress", 69)

\* The caller's onProgress(n) is among the statements.
Reports(stmts, n) == \E i \in 1..Len(stmts) : stmts[i] = EN("onProgress", n)

(***************************************************************************)
(* C27. The milestones of processVideo come in a fixed order: progress 10  *)
(* is reported before the upload request is started; progress 30 is        *)
(* reported only in the task in which the upload returned status           *)
(* 'received', after progress 10 and before the channel is opened; and a   *)
(* progress value driven by a frame (40 or more) is reported only after    *)
(* progress 30.                                                            *)
(***************************************************************************)
C27_MilestonesInOrder ==
    /\ [][(upload = "unsent" /\ upload' = "inflight")
          => /\ Reports(fx', 10)
             /\ Position(fx', "onProgress") < Position(fx', "uploadVideo")]_vars
    /\ [][Reports(SubSeq(calls', Len(calls) + 1, Len(calls')), 30)
          => /\ fx'[1] = ES("upload settles", "received")
             /\ Reports(calls, 10)
             /\ ws = 0
             /\ Position(fx', "onProgress")
                  < Position(fx', "connectToProcessing")
             /\ HasOp(fx', "new WebSocket")
                  => Position(fx', "onProgress")
                       < Position(fx', "new WebSocket")]_vars
    /\ [](\A i \in 1..Len(calls) :
            (calls[i].op = "onProgress" /\ calls[i].n >= 40)
            => Reports(SubSeq(calls, 1, i - 1), 30))

C27_Witness ==
    /\ ProgressValues(calls)
         = <<EN("onProgress", 10), EN("onProgress", 30),
             EN("onProgress", 69), EN("onProgress", 100)>>
    /\ promise.state = "resolved"

(***************************************************************************)
(* C28. An exception raised in processVideo before the channel is set up   *)
(* (the upload fails, times out or returns another status than 'received', *)
(* or a callback of the caller throws) is caught: the deadline timer is    *)
(* cancelled and the workflow is rejected with the error caught.  From     *)
(* then on the deadline timer is not pending, no reconnect timer is        *)
(* pending and there is no channel.                                        *)
(***************************************************************************)
C28_ExceptionBeforeChannel ==
    /\ [][(pc \in {"start", "race"} /\ pc' = "caught")
          => /\ HasOp(fx', "catch")
             /\ Position(fx', "clearTimeout") < Position(fx', "reject")
             /\ promise' = Rejected(fx'[Position(fx', "catch")].s)
             /\ deadline' = "cleared"]_vars
    /\ [](pc = "caught"
            => /\ deadline = "cleared"
               /\ retryTimer = 0
               /\ ws = 0
               /\ readyState = "none")

C28_Witness ==
    /\ pc = "caught"
    /\ promise = Rejected(CallbackError)
    /\ calls[Len(calls)] = EN("onProgress", 30)
    /\ uploadTimer = "armed"
    /\ deadline = "cleared"

\* The teardown function is invoked.
TeardownStep == tornDown' /\ HasOp(fx', "cleanup")

\* The channel has closed its connection, or is closing it, and no reconnect
\* is pending: the states a handled terminal frame leaves behind.
ClosingOrCleanlyClosed ==
    \/ readyState = "closing"
    \/ readyState = "closed" /\ retryTimer = 0

C30_NoFrameAfterSelfClose ==
    [][(readyState = "closing" /\ messageCount' = messageCount + 1)
       => /\ ~HasOp(fx', "onStatusUpdate")
          /\ ~HasOp(fx', "onError")]_vars

(***************************************************************************)
(* C31. The health probe is a gate of the application flow: the upload is  *)
(* started only after checkServerHealth resolved with isHealthy true; when *)
(* it resolved with isHealthy false, no upload request is sent, no channel *)
(* is opened and the app shows a connection error on the result slide.     *)
(***************************************************************************)
C31_HealthProbeGates ==
    /\ [][(upload = "unsent" /\ upload' # "unsent")
          => health.done /\ health.out.isHealthy]_vars
    /\ [](( health.done /\ ~health.out.isHealthy )
            => /\ upload = "unsent"
               /\ pc = "start"
               /\ ws = 0
               /\ readyState = "none"
               /\ calls = <<>>
               /\ app.result = "Connection Error"
               /\ app.slide = 3
               /\ ~app.isUploading)

C31_Witness ==
    /\ health.done
    /\ health.fetch.kind = "response"
    /\ health.fetch.code = 503
    /\ ~health.out.isHealthy
    /\ app.result = "Connection Error"
    /\ upload = "unsent"

\* processVideo arms its two timers with the delays of the configuration.
ArmsTimersOf(CONFIG) ==
    (upload = "unsent" /\ upload' = "inflight")
    => /\ \E i \in 1..Len(fx') :
             fx'[i] = EN("setTimeout", CONFIG.PROCESSING_TIMEOUT)
       /\ \E i \in 1..Len(fx') :
             fx'[i] = EN("setTimeout", CONFIG.UPLOAD_TIMEOUT)

\* The channel reports exhaustion at the retry limit of the configuration.
GivesUpAt(CONFIG) ==
    (\E i \in 1..Len(fx') : fx'[i] = ES("onError", ChannelExhaustedError))
    => reconnectAttempts = CONFIG.MAX_RETRY_ATTEMPTS

(***************************************************************************)
(* C32. The limits the client enforces are the configured ones, for the    *)
(* development and for the production configuration: the timers armed by  *)
(* processVideo are CONFIG.PROCESSING_TIMEOUT for the overall deadline and *)
(* CONFIG.UPLOAD_TIMEOUT for the upload race, and the channel gives up     *)
(* reconnecting exactly when the counter is CONFIG.MAX_RETRY_ATTEMPTS.     *)
(***************************************************************************)
C32_LimitsAreConfigured ==
    /\ [][ArmsTimersOf(DEV_CONFIG) /\ ArmsTimersOf(PROD_CONFIG)]_vars
    /\ [](\A CONFIG \in Configs :
            reconnectAttempts <= CONFIG.MAX_RETRY_ATTEMPTS)
    /\ [][GivesUpAt(DEV_CONFIG) /\ GivesUpAt(PROD_CONFIG)]_vars

(***************************************************************************)
(* C33. Once the workflow has settled, on any path, the caller's           *)
(* onProgress and onStatusText callbacks are not invoked again, whatever   *)
(* frames, errors or closes the channel receives afterwards.               *)
(***************************************************************************)
C33_NoCallbackAfterSettled ==
    [][Settled => calls' = calls]_vars

\* The server ends a live connection with code 1000 while the workflow is
\* pending, that is before any terminal frame.
ServerCleanClose ==
    /\ CloseStep
    /\ readyState \in {"connecting", "open"}
    /\ fx'[1] = EN("onclose", NormalClosure)
    /\ ~Settled

\* The workflow is pending and its channel has no connection and no
\* reconnect timer.
HangingSession == readyState = "closed" /\ retryTimer = 0 /\ ~Settled

(***************************************************************************)
(* C34. When the server closes the connection with code 1000 before any    *)
(* terminal frame, the channel calls neither callback and schedules no     *)
(* reconnect; the workflow stays pending without a connection, and the     *)
(* only thing that settles it is the overall deadline, which rejects it    *)
(* with the overall-timeout error, and does so eventually.                 *)
(***************************************************************************)
C34_CleanServerCloseHangs ==
    /\ [][ServerCleanClose
          => /\ fx' = <<EN("onclose", NormalClosure)>>
             /\ calls' = calls
             /\ promise' = promise
             /\ retryTimer' = 0
             /\ HangingSession']_vars
    /\ [][HangingSession
          => /\ ws' = ws
             /\ readyState' = readyState
             /\ calls' = calls
             /\ promise' # promise
                  => /\ deadline = "armed" /\ deadline' = "fired"
                     /\ promise' = Rejected(OverallTimeoutError)]_vars
    /\ (HangingSession ~> promise = Rejected(OverallTimeoutError))

C34_Witness ==
    /\ HasOp(fx, "deadline")
    /\ promise = Rejected(OverallTimeoutError)
    /\ readyState = "closed"
    /\ retryTimer = 0
    /\ reconnectAttempts = 0
    /\ messageCount > 0

(***************************************************************************)
(* C35. A channel session ends after a bounded number of reconnections:    *)
(* also a connection that opens and then drops abnormally again and again  *)
(* stops reconnecting, so a session never creates more connections than    *)
(* the first one and maxReconnectAttempts reconnections.                   *)
(***************************************************************************)
C35_BoundedReconnections == ws <= 1 + maxReconnectAttempts

(***************************************************************************)
(* C36. connectToProcessing is called, and the first socket created, only  *)
(* while the workflow is pending and the deadline timer is armed: the      *)
(* upload race ends after 120 s at the latest, before the 180 s deadline   *)
(* armed in the same task can fire.                                        *)
(***************************************************************************)
C36_ChannelOpenedWhilePending ==
    /\ [][HasOp(fx', "connectToProcessing")
          => /\ pc = "race" /\ pc' = "channel"
             /\ ~Settled
             /\ deadline = "armed"
             /\ uploadTimer = "armed"
             /\ fx'[1] = ES("upload settles", "received")]_vars
    /\ [][(ws = 0 /\ ws' # 0)
          => /\ HasOp(fx', "connectToProcessing")
             /\ ~Settled
             /\ ~Settled'
             /\ deadline' = "armed"]_vars

C36_Witness ==
    /\ HasOp(fx, "connectToProcessing")
    /\ ws = 1
    /\ readyState = "connecting"
    /\ ~Settled
    /\ deadline = "armed"
    /\ uploadTimer = "armed"

(***************************************************************************)
(* C38. isConnected is TRUE exactly while the current socket has had its   *)
(* open event and not yet its close event. A teardown while the first      *)
(* socket is still connecting therefore closes nothing and changes nothing *)
(* of the channel, and the socket goes on to open and to deliver frames.   *)
(***************************************************************************)
C38_ConnectedFlagFollowsOpenClose ==
    /\ [](isConnected <=> readyState \in {"open", "closing"})
    /\ [][OpenStep => isConnected']_vars
    /\ [][CloseStep => ~isConnected']_vars
    /\ [][(TeardownStep /\ readyState = "connecting")
          => /\ fx' = <<E("cleanup")>>
             /\ readyState' = "connecting"
             /\ ~isConnected'
             /\ UNCHANGED <<ws, calls, promise, retryTimer>>]_vars

C38_Witness ==
    /\ tornDown
    /\ ws = 1
    /\ readyState = "open"
    /\ isConnected
    /\ HasOp(fx, "onStatusUpdate")
    /\ Len(calls) > 3

\* A task of the user, as opposed to a task of the first run.
UserStep == HasOp(fx', "press")

(***************************************************************************)
(* C37. Once the first run has ended and the user has started another      *)
(* video, no frame, socket event, timer or settlement of the first run     *)
(* changes uploadProgress, isUploading, result or the slide.               *)
(***************************************************************************)
C37_EarlierRunLeavesAppAlone ==
    [][(app.run > 1 /\ ~UserStep)
       => /\ app'.uploadProgress = app.uploadProgress
          /\ app'.isUploading = app.isUploading
          /\ app'.result = app.result
          /\ app'.slide = app.slide]_vars

=============================================================================
